---------------------------- MODULE Spec2Model ----------------------------
(***************************************************************************)
(* A model of systems/local.go (OWASP Amass, LocalSystem): the data source *)
(* registry actor (manageDataSources), the operations that talk to it      *)
(* (AddSource, AddAndStart, DataSources, SetDataSources), Shutdown, the    *)
(* constructor NewLocalSystem, the resolver prober setupResolvers, the     *)
(* pool builders customResolverSetup and publicResolverSetup, and the ASN  *)
(* cache loader loadCacheData.                                             *)
(*                                                                         *)
(* Go slices are modelled as they are: a slice value is a header           *)
(* (backing array, len, cap); append writes in place while len < cap and   *)
(* allocates a backing array of doubled capacity otherwise.  Since every   *)
(* capacity is allocated once, a backing array is named by its capacity.   *)
(***************************************************************************)
EXTENDS Integers, Sequences, FiniteSets

(***************************************************************************)
(* Bounds of the model.                                                    *)
(***************************************************************************)
NSrc == 4          \* data sources that exist
NCallers == 2      \* client goroutines
NObs == 1          \* client goroutines that query the registry while sources are set
NSrcShut == 2      \* data sources in the shutdown scenarios
NSrcSet == 2       \* data sources given to SetDataSources
NGraphs == 1       \* graph backends of a constructed system
MaxDBs == 2        \* database entries in the configuration (constructor)
MaxAddrs == 11     \* candidate addresses given to the prober
MaxCap == 1        \* largest value of the prober's cap max
MaxTrusted == 3    \* largest len(cfg.Resolvers)
MaxFd == 3         \* largest value of max given to the pool builders
MaxBudget == 8     \* largest cfg.MaxDNSQueries of a configuration
MaxPerSec == 2     \* largest value of the config package's default rates
NPublic == 2       \* len(config.PublicResolvers)
NBaseline == 2     \* len(config.DefaultBaselineResolvers)
MaxRanges == 3     \* records config.GetIP2ASNData returns
NRecIds == 2       \* distinct address ranges among the records
MaxOnes == 2       \* largest mask length of a derived CIDR

(***************************************************************************)
(* Program constants.                                                      *)
(***************************************************************************)
AllSourcesCap == 10   \* make(chan chan []service.Service, 10)
ReplyCap == 2         \* make(chan []service.Service, 2)
FinishedCap == 10     \* make(chan resolvers.Resolver, 10)

Sources == 1..NSrc
Callers == 1..NCallers
Observers == 1..NObs
CtorThread == 0
Threads == {CtorThread} \cup Callers

\* src.String(): the name of a source; several sources share a name.
SrcName(s) == (2 * s) % 3

NilSlice == [cap |-> 0, len |-> 0]

VARIABLES
    \* LocalSystem
    doneAlreadyClosed,  \* l.doneAlreadyClosed
    done,               \* l.done: "open" or "closed"
    allSources,         \* l.allSources: queued reply channels, named by their caller
    graphs,             \* l.graphs: the graphs built, in order
    \* the registry actor, manageDataSources
    actorPc,            \* "none" (not started), "select", "add", "exit"
    actorAdd,           \* the source received from l.addSource, being appended
    dataSources,        \* the actor's slice header
    heap,               \* backing arrays, by capacity
    reply,              \* reply[t]: the channel ch of t's DataSources call
    \* callers of Shutdown and DataSources
    op,                 \* op[t]: "none", "Shutdown", "DataSources"
    pc,                 \* pc[t]: position in the operation
    snap,               \* snap[t]: the slice header DataSources returned to t
    idx,                \* idx[t]: Shutdown's range index over the snapshot
    \* AddAndStart, one goroutine per source
    w,                  \* w[s]: "new", "starting", "sending", "added", "failed", "reported"
    viaSet,             \* viaSet[s]: spawned by SetDataSources
    svc,                \* svc[s]: what Start returned: "none", "running", "ok", "err"
    \* SetDataSources
    sdsPc,              \* "idle", "loop", "timedout" (break loop), "complete"
    sdsN,               \* len(sources)
    sdsI,               \* the loop's i
    ch,                 \* ch: the values AddAndStart returned, "nil" or "err"
    timerFired,         \* the timer has put its value on t.C
    sdsSeen,            \* the errors SetDataSources has kept from ch
    \* NewLocalSystem
    ctorPc,             \* position in NewLocalSystem
    ctorErr,            \* the step that failed: "none", "settings", "pool", "fetch", "graph"
    dbs,                \* len(dbs) in setupGraphDBs
    dbIdx,              \* entries of dbs handled so far
    pool,               \* l.pool: "none" or "built"
    \* the process
    panicked,
    \* setupResolvers and its probe goroutines
    prPc,               \* "call", "loop", "returned"
    prN,                \* len(addrs)
    prMax,              \* max
    nChecking,          \* probes in ClientSubnetCheck / NewBaseResolver
    nSendH,             \* probes at ch <- n, holding a resolver
    nSendNil,           \* probes at ch <- nil
    nDone,              \* probes that have returned
    finished,           \* the channel finished: "H" (a resolver) or "nil"
    prI,                \* the receiving loop's i
    prCount,            \* count
    prAccepted,         \* len(resolvers)
    prStopped,          \* resolvers the loop has stopped (r.Stop())
    prResult,           \* what setupResolvers returned: "pending", "nil", "set"
    \* the configuration and the pool builders
    cfgResolvers,       \* len(cfg.Resolvers)
    cfgMaxDNSQueries,   \* cfg.MaxDNSQueries
    perBaseline,        \* config.DefaultQueriesPerBaselineResolver
    perPublic,          \* config.DefaultQueriesPerPublicResolver
    rsPc,               \* position in the pool's construction
    rsMax,              \* max
    rsNum,              \* num
    rsRate,             \* rate (customResolverSetup)
    rsI,                \* addresses the builder's loop has handled
    rsTrusted,          \* len(trusted)
    rsBaseline,         \* baseline: "none" or "pool"
    rsPublic,           \* len(r), r what setupResolvers returned
    rsPool,             \* the pool returned: "pending", "none" (nil), "pool"
    \* loadCacheData
    lcPc,               \* "fetch", "loop", "done", "err"
    ranges,             \* the records config.GetIP2ASNData returned
    lcI,                \* records the loop has handled
    cacheUpdates,       \* the requests given to l.cache.Update, in order
    \* observations (history)
    stops,              \* stops[s]: calls of s.Stop()
    closes,             \* calls of close(l.done)
    graphCloses,        \* graphCloses[g]: calls of g.Close()
    poolStops,          \* calls of l.pool.Stop()
    accepted,           \* the sources the actor has received from l.addSource
    atReply,            \* atReply[t]: the actor's list when it answered t's query
    mustSee,            \* mustSee[t]: sources whose AddSource had returned when t's DataSources began
    view,               \* view[t]: the contents of the snapshot as DataSources returned it
    tornDown,           \* a Shutdown call has run its teardown to the end and returned
    afterSet,           \* afterSet[t]: t's DataSources call began after SetDataSources returned
    lateCall,           \* lateCall[t]: t's Shutdown call began after a Shutdown had torn down and returned
    budget0             \* cfg.MaxDNSQueries when NewLocalSystem was called

regVars == <<doneAlreadyClosed, done, allSources, graphs, actorPc, actorAdd,
             dataSources, heap, reply>>
callVars == <<op, pc, snap, idx>>
srcVars == <<w, viaSet, svc>>
sdsVars == <<sdsPc, sdsN, sdsI, ch, timerFired, sdsSeen>>
ctorVars == <<ctorPc, ctorErr, dbs, dbIdx, pool>>
obsVars == <<stops, closes, graphCloses, poolStops, accepted, atReply, mustSee,
             view, lateCall, tornDown, afterSet>>
probeVars == <<prPc, prN, prMax, nChecking, nSendH, nSendNil, nDone, finished,
               prI, prCount, prAccepted, prStopped, prResult>>
cfgVars == <<cfgResolvers, cfgMaxDNSQueries, perBaseline, perPublic, budget0>>
builderVars == <<rsPc, rsMax, rsNum, rsRate, rsI, rsTrusted, rsBaseline, rsPublic,
                 rsPool>>
loaderVars == <<lcPc, ranges, lcI, cacheUpdates>>
setupVars == <<cfgVars, builderVars, loaderVars>>
sysVars == <<regVars, callVars, srcVars, sdsVars, ctorVars, obsVars, panicked>>
vars == <<sysVars, probeVars, setupVars>>

(***************************************************************************)
(* Slices.                                                                 *)
(***************************************************************************)
Caps == {1, 2, 4, 8, 16}

\* The elements a slice header shows now: the first len cells of its array.
View(sl) == IF sl.cap = 0 THEN << >> ELSE SubSeq(heap[sl.cap], 1, sl.len)

\* The capacity append gives a full slice of interfaces: 1, then doubled.
GrowCap(c) == IF c = 0 THEN 1 ELSE 2 * c

Front(q) == SubSeq(q, 1, Len(q) - 1)
Last(q) == q[Len(q)]
Range(q) == {q[i] : i \in 1..Len(q)}

\* less of sort.Slice: dataSources[i].String() < dataSources[j].String()
Less(a, b) == SrcName(a) < SrcName(b)

\* sort.Slice on a short slice is an insertion sort: each element moves left
\* while it is less than its left neighbour.
RECURSIVE Insert(_, _)
Insert(q, x) ==
    IF q /= << >> /\ Less(x, Last(q))
    THEN Append(Insert(Front(q), x), Last(q))
    ELSE Append(q, x)

RECURSIVE SortSlice(_)
SortSlice(q) == IF q = << >> THEN q ELSE Insert(SortSlice(Front(q)), Last(q))


(***************************************************************************)
(* The registry actor: manageDataSources.                                  *)
(***************************************************************************)
\* dataSources = append(dataSources, add): in place when there is room,
\* into a new array of the grown capacity (the old cells copied) otherwise.
AppendSlice(sl, x) ==
    IF sl.len < sl.cap
    THEN [hdr |-> [cap |-> sl.cap, len |-> sl.len + 1],
          cells |-> Append(SubSeq(heap[sl.cap], 1, sl.len), x)]
    ELSE [hdr |-> [cap |-> GrowCap(sl.cap), len |-> sl.len + 1],
          cells |-> Append(View(sl), x)]

\* case add := <-l.addSource: the unbuffered channel hands over the source of
\* a sender blocked in AddSource, which returns nil.
ActorRecvAdd(s) ==
    /\ ~panicked
    /\ actorPc = "select"
    /\ w[s] = "sending"
    /\ actorPc' = "add"
    /\ actorAdd' = s
    /\ w' = [w EXCEPT ![s] = "added"]
    /\ accepted' = accepted \cup {s}
    /\ UNCHANGED <<doneAlreadyClosed, done, allSources, graphs, dataSources, heap, reply>>
    /\ UNCHANGED <<callVars, viaSet, svc, sdsVars, ctorVars, panicked>>
    /\ UNCHANGED <<stops, closes, graphCloses, poolStops, atReply, mustSee, view, lateCall, tornDown, afterSet>>
    /\ UNCHANGED <<probeVars, setupVars>>

\* The body of the add case: append, then sort.Slice by name, in place.
ActorAppendSort ==
    /\ ~panicked
    /\ actorPc = "add"
    /\ LET r == AppendSlice(dataSources, actorAdd) IN
        /\ dataSources' = r.hdr
        /\ heap' = [heap EXCEPT ![r.hdr.cap] = SortSlice(r.cells)]
    /\ actorPc' = "select"
    /\ actorAdd' = 0
    /\ UNCHANGED <<doneAlreadyClosed, done, allSources, graphs, reply>>
    /\ UNCHANGED <<callVars, srcVars, sdsVars, ctorVars, obsVars, panicked>>
    /\ UNCHANGED <<probeVars, setupVars>>

\* case all := <-l.allSources: all <- dataSources.  The reply channel has
\* room for two and receives one value, so the send never blocks.
ActorRecvAll ==
    /\ ~panicked
    /\ actorPc = "select"
    /\ allSources /= << >>
    /\ LET t == Head(allSources) IN
        /\ Len(reply[t]) < ReplyCap
        /\ reply' = [reply EXCEPT ![t] = Append(@, dataSources)]
        /\ atReply' = [atReply EXCEPT ![t] = View(dataSources)]
    /\ allSources' = Tail(allSources)
    /\ UNCHANGED <<doneAlreadyClosed, done, graphs, actorPc, actorAdd, dataSources, heap>>
    /\ UNCHANGED <<callVars, srcVars, sdsVars, ctorVars, panicked>>
    /\ UNCHANGED <<stops, closes, graphCloses, poolStops, accepted, mustSee, view, lateCall, tornDown, afterSet>>
    /\ UNCHANGED <<probeVars, setupVars>>

\* case <-l.done: return.  A receive from a closed channel is always ready.
ActorDone ==
    /\ ~panicked
    /\ actorPc = "select"
    /\ done = "closed"
    /\ actorPc' = "exit"
    /\ UNCHANGED <<doneAlreadyClosed, done, allSources, graphs, actorAdd, dataSources, heap, reply>>
    /\ UNCHANGED <<callVars, srcVars, sdsVars, ctorVars, obsVars, panicked>>
    /\ UNCHANGED <<probeVars, setupVars>>

(***************************************************************************)
(* AddAndStart and AddSource.                                              *)
(***************************************************************************)
\* AddAndStart(srv) called directly: srv.Start() begins.
AddAndStartCall(s) ==
    /\ ~panicked
    /\ ctorPc = "returned"
    /\ w[s] = "new"
    /\ w' = [w EXCEPT ![s] = "starting"]
    /\ svc' = [svc EXCEPT ![s] = "running"]
    /\ UNCHANGED <<regVars, callVars, viaSet, sdsVars, ctorVars, obsVars, panicked>>
    /\ UNCHANGED <<probeVars, setupVars>>

\* AddAndStart registering whatever Start returned.
StartedOKAlways(res) == TRUE

\* if err == nil { return l.AddSource(srv) }
StartedOK(res) == res = "ok"

\* srv.Start() returns res; on success AddSource blocks in l.addSource <- src,
\* otherwise AddAndStart returns the error.
StartReturn(s, res) ==
    /\ ~panicked
    /\ w[s] = "starting"
    /\ svc' = [svc EXCEPT ![s] = res]
    /\ w' = [w EXCEPT ![s] = IF StartedOK(res) THEN "sending" ELSE "failed"]
    /\ UNCHANGED <<regVars, callVars, viaSet, sdsVars, ctorVars, obsVars, panicked>>
    /\ UNCHANGED <<probeVars, setupVars>>

(***************************************************************************)
(* SetDataSources.                                                         *)
(***************************************************************************)
\* go f(src, ch) for every source of the list; the timer is created.
SetDataSourcesCall(L) ==
    /\ ~panicked
    /\ ctorPc = "returned"
    /\ sdsPc = "idle"
    /\ \A s \in L : w[s] = "new"
    /\ w' = [s \in Sources |-> IF s \in L THEN "starting" ELSE w[s]]
    /\ svc' = [s \in Sources |-> IF s \in L THEN "running" ELSE svc[s]]
    /\ viaSet' = [s \in Sources |-> viaSet[s] \/ s \in L]
    /\ sdsPc' = "loop"
    /\ sdsN' = Cardinality(L)
    /\ sdsI' = 0
    /\ ch' = << >>
    /\ timerFired' = FALSE
    /\ sdsSeen' = {}
    /\ UNCHANGED <<regVars, callVars, ctorVars, obsVars, panicked>>
    /\ UNCHANGED <<probeVars, setupVars>>

\* ch <- l.AddAndStart(src): ch has room for every source, so it never blocks.
WorkerReport(s) ==
    /\ ~panicked
    /\ viaSet[s]
    /\ w[s] \in {"added", "failed"}
    /\ w' = [w EXCEPT ![s] = "reported"]
    /\ ch' = Append(ch, IF w[s] = "added" THEN "nil" ELSE "err")
    /\ UNCHANGED <<regVars, callVars, viaSet, svc, sdsPc, sdsN, sdsI, timerFired, sdsSeen>>
    /\ UNCHANGED <<ctorVars, obsVars, panicked>>
    /\ UNCHANGED <<probeVars, setupVars>>

\* Five seconds pass: the timer puts a value on t.C.
TimerFire ==
    /\ ~panicked
    /\ sdsPc = "loop"
    /\ ~timerFired
    /\ timerFired' = TRUE
    /\ UNCHANGED <<regVars, callVars, srcVars, sdsPc, sdsN, sdsI, ch, sdsSeen>>
    /\ UNCHANGED <<ctorVars, obsVars, panicked>>
    /\ UNCHANGED <<probeVars, setupVars>>

\* case <-ch: with an empty body: the value received is dropped.
Received(seen, e) == seen

\* for i := 0; i < len(sources); i++ { select { ... case <-ch: } }
SdsRecv ==
    /\ ~panicked
    /\ sdsPc = "loop"
    /\ sdsI < sdsN
    /\ ch /= << >>
    /\ ch' = Tail(ch)
    /\ sdsSeen' = Received(sdsSeen, Head(ch))
    /\ sdsI' = sdsI + 1
    /\ UNCHANGED <<regVars, callVars, srcVars, sdsPc, sdsN, timerFired>>
    /\ UNCHANGED <<ctorVars, obsVars, panicked>>
    /\ UNCHANGED <<probeVars, setupVars>>

\* The timer case taken only once no Start is still running.
SdsTimeoutAfterStarts ==
    /\ ~panicked
    /\ sdsPc = "loop"
    /\ sdsI < sdsN
    /\ timerFired
    /\ \A s \in Sources : svc[s] /= "running"
    /\ sdsPc' = "timedout"
    /\ UNCHANGED <<regVars, callVars, srcVars, sdsN, sdsI, ch, timerFired, sdsSeen>>
    /\ UNCHANGED <<ctorVars, obsVars, panicked>>
    /\ UNCHANGED <<probeVars, setupVars>>

\* case <-t.C: break loop
SdsTimeout ==
    /\ ~panicked
    /\ sdsPc = "loop"
    /\ sdsI < sdsN
    /\ timerFired
    /\ sdsPc' = "timedout"
    /\ UNCHANGED <<regVars, callVars, srcVars, sdsN, sdsI, ch, timerFired, sdsSeen>>
    /\ UNCHANGED <<ctorVars, obsVars, panicked>>
    /\ UNCHANGED <<probeVars, setupVars>>

\* The loop ends with every confirmation received.
SdsExit ==
    /\ ~panicked
    /\ sdsPc = "loop"
    /\ sdsI = sdsN
    /\ sdsPc' = "complete"
    /\ UNCHANGED <<regVars, callVars, srcVars, sdsN, sdsI, ch, timerFired, sdsSeen>>
    /\ UNCHANGED <<ctorVars, obsVars, panicked>>
    /\ UNCHANGED <<probeVars, setupVars>>

(***************************************************************************)
(* DataSources: ch := make(chan, 2); l.allSources <- ch; return <-ch       *)
(* It is called by clients and by Shutdown.                                *)
(***************************************************************************)
DataSourcesCall(t) ==
    /\ ~panicked
    /\ ctorPc = "returned"
    /\ t \in Callers
    /\ op[t] = "none"
    /\ op' = [op EXCEPT ![t] = "DataSources"]
    /\ pc' = [pc EXCEPT ![t] = "send"]
    /\ mustSee' = [mustSee EXCEPT ![t] = accepted]
    /\ afterSet' = [afterSet EXCEPT ![t] = sdsPc \in {"timedout", "complete"}]
    /\ UNCHANGED <<regVars, snap, idx, srcVars, sdsVars, ctorVars, panicked>>
    /\ UNCHANGED <<stops, closes, graphCloses, poolStops, accepted, atReply, view, lateCall, tornDown>>
    /\ UNCHANGED <<probeVars, setupVars>>

\* l.allSources <- ch: blocks only while the ten slots are taken.
DsSend(t) ==
    /\ ~panicked
    /\ pc[t] = "send"
    /\ Len(allSources) < AllSourcesCap
    /\ allSources' = Append(allSources, t)
    /\ pc' = [pc EXCEPT ![t] = "recv"]
    /\ UNCHANGED <<doneAlreadyClosed, done, graphs, actorPc, actorAdd, dataSources, heap, reply>>
    /\ UNCHANGED <<op, snap, idx, srcVars, sdsVars, ctorVars, obsVars, panicked>>
    /\ UNCHANGED <<probeVars, setupVars>>

\* <-ch: blocks until the actor has answered.  The caller gets the slice
\* header the actor sent; what it shows is what the array holds now.
DsRecv(t) ==
    /\ ~panicked
    /\ pc[t] = "recv"
    /\ reply[t] /= << >>
    /\ reply' = [reply EXCEPT ![t] = Tail(@)]
    /\ snap' = [snap EXCEPT ![t] = Head(reply[t])]
    /\ idx' = [idx EXCEPT ![t] = 0]
    /\ IF op[t] = "DataSources"
       THEN /\ pc' = [pc EXCEPT ![t] = "ret"]
            /\ view' = [view EXCEPT ![t] = View(Head(reply[t]))]
       ELSE /\ pc' = [pc EXCEPT ![t] = "stop"]
            /\ view' = view
    /\ UNCHANGED <<doneAlreadyClosed, done, allSources, graphs, actorPc, actorAdd, dataSources, heap>>
    /\ UNCHANGED <<op, srcVars, sdsVars, ctorVars, panicked>>
    /\ UNCHANGED <<stops, closes, graphCloses, poolStops, accepted, atReply, mustSee, lateCall, tornDown, afterSet>>
    /\ UNCHANGED <<probeVars, setupVars>>

\* The caller is done with the snapshot DataSources returned.
DsReturn(t) ==
    /\ ~panicked
    /\ op[t] = "DataSources"
    /\ pc[t] = "ret"
    /\ op' = [op EXCEPT ![t] = "none"]
    /\ pc' = [pc EXCEPT ![t] = "idle"]
    /\ snap' = [snap EXCEPT ![t] = NilSlice]
    /\ view' = [view EXCEPT ![t] = << >>]
    /\ atReply' = [atReply EXCEPT ![t] = << >>]
    /\ mustSee' = [mustSee EXCEPT ![t] = {}]
    /\ afterSet' = [afterSet EXCEPT ![t] = FALSE]
    /\ UNCHANGED <<regVars, idx, srcVars, sdsVars, ctorVars, panicked>>
    /\ UNCHANGED <<stops, closes, graphCloses, poolStops, accepted, lateCall, tornDown>>
    /\ UNCHANGED <<probeVars, setupVars>>

(***************************************************************************)
(* Shutdown.                                                               *)
(***************************************************************************)
ShutdownCall(t) ==
    /\ ~panicked
    /\ ctorPc = "returned"
    /\ t \in Callers
    /\ op[t] = "none"
    /\ op' = [op EXCEPT ![t] = "Shutdown"]
    /\ pc' = [pc EXCEPT ![t] = "check"]
    /\ lateCall' = [lateCall EXCEPT ![t] = tornDown]
    /\ UNCHANGED <<regVars, snap, idx, srcVars, sdsVars, ctorVars, panicked>>
    /\ UNCHANGED <<stops, closes, graphCloses, poolStops, accepted, atReply, mustSee, view, tornDown, afterSet>>
    /\ UNCHANGED <<probeVars, setupVars>>

\* Shutdown without its flag check.
AlreadyClosedNever == FALSE

\* if l.doneAlreadyClosed { return nil }
AlreadyClosed == doneAlreadyClosed

ShCheck(t) ==
    /\ ~panicked
    /\ op[t] = "Shutdown"
    /\ pc[t] = "check"
    /\ pc' = [pc EXCEPT ![t] = IF AlreadyClosed THEN "retnil" ELSE "set"]
    /\ UNCHANGED <<regVars, op, snap, idx, srcVars, sdsVars, ctorVars, obsVars, panicked>>
    /\ UNCHANGED <<probeVars, setupVars>>

\* l.doneAlreadyClosed = true, then the call of l.DataSources() begins.
ShSet(t) ==
    /\ ~panicked
    /\ op[t] = "Shutdown"
    /\ pc[t] = "set"
    /\ doneAlreadyClosed' = TRUE
    /\ pc' = [pc EXCEPT ![t] = "send"]
    /\ UNCHANGED <<done, allSources, graphs, actorPc, actorAdd, dataSources, heap, reply>>
    /\ UNCHANGED <<op, snap, idx, srcVars, sdsVars, ctorVars, obsVars, panicked>>
    /\ UNCHANGED <<probeVars, setupVars>>

\* for _, src := range l.DataSources() { _ = src.Stop() }: one iteration.
\* The range reads cell idx of the snapshot's array when it gets there.
ShStop(t) ==
    /\ ~panicked
    /\ op[t] = "Shutdown"
    /\ pc[t] = "stop"
    /\ idx[t] < snap[t].len
    /\ LET s == heap[snap[t].cap][idx[t] + 1] IN
        stops' = [stops EXCEPT ![s] = @ + 1]
    /\ idx' = [idx EXCEPT ![t] = @ + 1]
    /\ UNCHANGED <<regVars, op, pc, snap, srcVars, sdsVars, ctorVars, panicked>>
    /\ UNCHANGED <<closes, graphCloses, poolStops, accepted, atReply, mustSee, view, lateCall, tornDown, afterSet>>
    /\ UNCHANGED <<probeVars, setupVars>>

\* close(l.done), after the loop.  Closing a closed channel panics.
ShClose(t) ==
    /\ ~panicked
    /\ op[t] = "Shutdown"
    /\ pc[t] = "stop"
    /\ idx[t] = snap[t].len
    /\ closes' = closes + 1
    /\ IF done = "closed"
       THEN /\ panicked' = TRUE
            /\ UNCHANGED <<done, pc>>
       ELSE /\ done' = "closed"
            /\ pc' = [pc EXCEPT ![t] = "graphs"]
            /\ panicked' = panicked
    /\ UNCHANGED <<doneAlreadyClosed, allSources, graphs, actorPc, actorAdd, dataSources, heap, reply>>
    /\ UNCHANGED <<op, snap, idx, srcVars, sdsVars, ctorVars>>
    /\ UNCHANGED <<stops, graphCloses, poolStops, accepted, atReply, mustSee, view, lateCall, tornDown, afterSet>>
    /\ UNCHANGED <<probeVars, setupVars>>

\* for _, g := range l.GraphDatabases() { g.Close() }
ShGraphs(t) ==
    /\ ~panicked
    /\ op[t] = "Shutdown"
    /\ pc[t] = "graphs"
    /\ graphCloses' = [g \in DOMAIN graphCloses |->
                          IF g \in Range(graphs) THEN graphCloses[g] + 1 ELSE graphCloses[g]]
    /\ pc' = [pc EXCEPT ![t] = "pool"]
    /\ UNCHANGED <<regVars, op, snap, idx, srcVars, sdsVars, ctorVars, panicked>>
    /\ UNCHANGED <<stops, closes, poolStops, accepted, atReply, mustSee, view, lateCall, tornDown, afterSet>>
    /\ UNCHANGED <<probeVars, setupVars>>

\* l.pool.Stop(); return nil
ShPool(t) ==
    /\ ~panicked
    /\ op[t] = "Shutdown"
    /\ pc[t] = "pool"
    /\ poolStops' = poolStops + 1
    /\ pc' = [pc EXCEPT ![t] = "ret"]
    /\ tornDown' = TRUE
    /\ UNCHANGED <<regVars, op, snap, idx, srcVars, sdsVars, ctorVars, panicked>>
    /\ UNCHANGED <<stops, closes, graphCloses, accepted, atReply, mustSee, view, lateCall, afterSet>>
    /\ UNCHANGED <<probeVars, setupVars>>

\* Shutdown has returned nil: to a client, or to NewLocalSystem, which then
\* returns its error (return nil, err).
ShReturn(t) ==
    /\ ~panicked
    /\ op[t] = "Shutdown"
    /\ pc[t] \in {"ret", "retnil"}
    /\ op' = [op EXCEPT ![t] = "none"]
    /\ pc' = [pc EXCEPT ![t] = "idle"]
    /\ snap' = [snap EXCEPT ![t] = NilSlice]
    /\ idx' = [idx EXCEPT ![t] = 0]
    /\ lateCall' = [lateCall EXCEPT ![t] = FALSE]
    /\ ctorPc' = IF t = CtorThread THEN "failed" ELSE ctorPc
    /\ UNCHANGED <<regVars, srcVars, sdsVars, ctorErr, dbs, dbIdx, pool, panicked>>
    /\ UNCHANGED <<stops, closes, graphCloses, poolStops, accepted, atReply, mustSee, view, tornDown, afterSet>>
    /\ UNCHANGED <<probeVars, setupVars>>

(***************************************************************************)
(* NewLocalSystem.                                                         *)
(***************************************************************************)
\* _ = sys.Shutdown(); return nil, err: the constructor calls Shutdown.
CtorFail(why) ==
    /\ ctorErr' = why
    /\ ctorPc' = "shutdown"
    /\ op' = [op EXCEPT ![CtorThread] = "Shutdown"]
    /\ pc' = [pc EXCEPT ![CtorThread] = "check"]

\* if err := c.CheckSettings(); err != nil { return nil, err }
CtorCheckSettings(ok) ==
    /\ ~panicked
    /\ ctorPc = "check"
    /\ IF ok THEN ctorPc' = "pool" /\ ctorErr' = ctorErr
             ELSE ctorPc' = "failed" /\ ctorErr' = "settings"
    /\ UNCHANGED <<regVars, callVars, srcVars, sdsVars, dbs, dbIdx, pool, obsVars, panicked>>
    /\ UNCHANGED <<probeVars, setupVars>>

\* The pool is built; if pool == nil { return nil, errors.New(...) }.
\* Then sys is made, with its three channels.
CtorPool(ok) ==
    /\ ~panicked
    /\ ctorPc = "pool"
    /\ IF ok THEN ctorPc' = "cache" /\ ctorErr' = ctorErr /\ pool' = "built"
             ELSE ctorPc' = "failed" /\ ctorErr' = "pool" /\ pool' = pool
    /\ UNCHANGED <<regVars, callVars, srcVars, sdsVars, dbs, dbIdx, obsVars, panicked>>
    /\ UNCHANGED <<probeVars, setupVars>>

\* if err := sys.loadCacheData(); err != nil { _ = sys.Shutdown(); return nil, err }
\* loadCacheData fails exactly when config.GetIP2ASNData does.
CtorLoadCache(ok) ==
    /\ ~panicked
    /\ ctorPc = "cache"
    /\ IF ok THEN ctorPc' = "outdir" /\ UNCHANGED <<ctorErr, op, pc>>
             ELSE CtorFail("fetch")
    /\ UNCHANGED <<regVars, snap, idx, srcVars, sdsVars, dbs, dbIdx, pool, obsVars, panicked>>
    /\ UNCHANGED <<probeVars, setupVars>>

\* setupOutputDirectory returns nil on every path.
CtorOutDir ==
    /\ ~panicked
    /\ ctorPc = "outdir"
    /\ ctorPc' = "graphs"
    /\ UNCHANGED <<regVars, callVars, srcVars, sdsVars, ctorErr, dbs, dbIdx, pool, obsVars, panicked>>
    /\ UNCHANGED <<probeVars, setupVars>>

\* One entry of dbs in setupGraphDBs.  res says what the constructors gave:
\* "ok", "nocayley" (NewCayleyGraph returned nil), "nograph" (NewGraph
\* returned nil).  With g == nil the error message calls g.String() on the
\* nil graph, which panics if String reads the graph, and otherwise the
\* error is returned.
CtorGraph(res, nilStringPanics) ==
    /\ ~panicked
    /\ ctorPc = "graphs"
    /\ dbIdx < dbs
    /\ CASE res = "ok" ->
              /\ graphs' = Append(graphs, dbIdx + 1)
              /\ dbIdx' = dbIdx + 1
              /\ UNCHANGED <<ctorPc, ctorErr, op, pc, panicked>>
         [] res = "nograph" /\ nilStringPanics ->
              /\ panicked' = TRUE
              /\ UNCHANGED <<graphs, dbIdx, ctorPc, ctorErr, op, pc>>
         [] OTHER ->
              /\ CtorFail("graph")
              /\ UNCHANGED <<graphs, dbIdx, panicked>>
    /\ UNCHANGED <<doneAlreadyClosed, done, allSources, actorPc, actorAdd, dataSources, heap, reply>>
    /\ UNCHANGED <<snap, idx, srcVars, sdsVars, dbs, pool, obsVars>>
    /\ UNCHANGED <<probeVars, setupVars>>

\* setupGraphDBs returned nil: go sys.manageDataSources(); return sys, nil
CtorSpawn ==
    /\ ~panicked
    /\ ctorPc = "graphs"
    /\ dbIdx = dbs
    /\ actorPc' = "select"
    /\ ctorPc' = "returned"
    /\ UNCHANGED <<doneAlreadyClosed, done, allSources, graphs, actorAdd, dataSources, heap, reply>>
    /\ UNCHANGED <<callVars, srcVars, sdsVars, ctorErr, dbs, dbIdx, pool, obsVars, panicked>>
    /\ UNCHANGED <<probeVars, setupVars>>

(***************************************************************************)
(* setupResolvers.  The probes differ only in where they are, so they are  *)
(* counted by position; an address plays no part in what follows the       *)
(* SplitHostPort / JoinHostPort normalisation.                             *)
(***************************************************************************)
\* if len(addrs) <= 0 { return nil }; otherwise one goroutine per address.
PrCall ==
    /\ prPc = "call"
    /\ IF prN <= 0
       THEN /\ prPc' = "returned"
            /\ prResult' = "nil"
            /\ UNCHANGED nChecking
       ELSE /\ prPc' = "loop"
            /\ nChecking' = prN
            /\ UNCHANGED prResult
    /\ UNCHANGED <<prN, prMax, nSendH, nSendNil, nDone, finished, prI, prCount,
                   prAccepted, prStopped>>
    /\ UNCHANGED <<sysVars, setupVars>>

\* A probe's ClientSubnetCheck and NewBaseResolver: with a resolver n it
\* goes on to ch <- n, otherwise to ch <- nil.
ProbeCheck(gotResolver) ==
    /\ nChecking > 0
    /\ nChecking' = nChecking - 1
    /\ IF gotResolver
       THEN nSendH' = nSendH + 1 /\ UNCHANGED nSendNil
       ELSE nSendNil' = nSendNil + 1 /\ UNCHANGED nSendH
    /\ UNCHANGED <<prPc, prN, prMax, nDone, finished, prI, prCount, prAccepted,
                   prStopped, prResult>>
    /\ UNCHANGED <<sysVars, setupVars>>

\* ch <- n, inside the two ifs; the probe goes on to ch <- nil.
ProbeSendResolver ==
    /\ nSendH > 0
    /\ Len(finished) < FinishedCap
    /\ finished' = Append(finished, "H")
    /\ nSendH' = nSendH - 1
    /\ nSendNil' = nSendNil + 1
    /\ UNCHANGED <<prPc, prN, prMax, nChecking, nDone, prI, prCount, prAccepted,
                   prStopped, prResult>>
    /\ UNCHANGED <<sysVars, setupVars>>

\* ch <- nil, the goroutine's last statement.
ProbeSendNil ==
    /\ nSendNil > 0
    /\ Len(finished) < FinishedCap
    /\ finished' = Append(finished, "nil")
    /\ nSendNil' = nSendNil - 1
    /\ nDone' = nDone + 1
    /\ UNCHANGED <<prPc, prN, prMax, nChecking, nSendH, prI, prCount, prAccepted,
                   prStopped, prResult>>
    /\ UNCHANGED <<sysVars, setupVars>>

\* The cap compared one too late.
AdmitOneMore(count, max) == count <= max

\* if count < max
Admit(count, max) == count < max

\* One iteration of for i := 0; i < l; i++ { if r := <-finished; r != nil {...} }
PrRecv ==
    /\ prPc = "loop"
    /\ prI < prN
    /\ finished /= << >>
    /\ finished' = Tail(finished)
    /\ prI' = prI + 1
    /\ IF Head(finished) = "H"
       THEN IF Admit(prCount, prMax)
            THEN /\ prAccepted' = prAccepted + 1
                 /\ prCount' = prCount + 1
                 /\ UNCHANGED prStopped
            ELSE /\ prStopped' = prStopped + 1
                 /\ UNCHANGED <<prAccepted, prCount>>
       ELSE UNCHANGED <<prAccepted, prCount, prStopped>>
    /\ UNCHANGED <<prPc, prN, prMax, nChecking, nSendH, nSendNil, nDone, prResult>>
    /\ UNCHANGED <<sysVars, setupVars>>

\* if len(resolvers) == 0 { return nil }; return resolvers
PrReturn ==
    /\ prPc = "loop"
    /\ prI = prN
    /\ prPc' = "returned"
    /\ prResult' = IF prAccepted = 0 THEN "nil" ELSE "set"
    /\ UNCHANGED <<prN, prMax, nChecking, nSendH, nSendNil, nDone, finished, prI,
                   prCount, prAccepted, prStopped>>
    /\ UNCHANGED <<sysVars, setupVars>>

(***************************************************************************)
(* The resolver pool: NewLocalSystem's choice of a builder,                *)
(* customResolverSetup and publicResolverSetup.                            *)
(***************************************************************************)
\* resolvers.NewResolverPool(tier, delay, fallback, ...), given len(tier) and
\* the fallback pool: a pool when the tier has a resolver or a fallback pool
\* stands behind it, nil ("none") otherwise.
NewResolverPool(tier, fallback) ==
    IF tier > 0 \/ fallback = "pool" THEN "pool" ELSE "none"

\* num := len(...); if num > max { num = max }
Num(len, max) == IF len > max THEN max ELSE len

\* The budget kept as it was configured when it lies under num.
BudgetUnraised(q, num, per) == IF q = 0 THEN num * per ELSE q

\* if cfg.MaxDNSQueries == 0 { cfg.MaxDNSQueries = num * per }
\* else if cfg.MaxDNSQueries < num { cfg.MaxDNSQueries = num }
Budget(q, num, per) ==
    IF q = 0 THEN num * per
    ELSE IF q < num THEN num
    ELSE q

\* No fallback given to the pool of probed resolvers.
FallbackNone(baseline) == "none"

\* The fallback publicResolverSetup gives the pool of probed resolvers.
Fallback(baseline) == baseline

\* What the builders leave alone besides their own variables.
BuilderFrame ==
    /\ UNCHANGED <<regVars, callVars, srcVars, sdsVars, ctorVars, obsVars>>
    /\ UNCHANGED <<cfgResolvers, perBaseline, perPublic, budget0>>
    /\ UNCHANGED <<probeVars, loaderVars>>

\* if len(c.Resolvers) == 0 { publicResolverSetup } else { customResolverSetup },
\* and the builder's num.
ChooseSetup ==
    /\ ~panicked
    /\ ctorPc = "pool"
    /\ rsPc = "choose"
    /\ IF cfgResolvers = 0
       THEN /\ rsPc' = "pbudget"
            /\ rsNum' = Num(NPublic, rsMax)
       ELSE /\ rsPc' = "cbudget"
            /\ rsNum' = Num(cfgResolvers, rsMax)
    /\ UNCHANGED <<cfgMaxDNSQueries, rsMax, rsRate, rsI, rsTrusted, rsBaseline,
                   rsPublic, rsPool, panicked>>
    /\ BuilderFrame

\* customResolverSetup: the budget is written to the configuration.
CustomBudget ==
    /\ rsPc = "cbudget"
    /\ cfgMaxDNSQueries' = Budget(cfgMaxDNSQueries, rsNum, perBaseline)
    /\ rsPc' = "crate"
    /\ UNCHANGED <<rsMax, rsNum, rsRate, rsI, rsTrusted, rsBaseline, rsPublic,
                   rsPool, panicked>>
    /\ BuilderFrame

\* rate := cfg.MaxDNSQueries / num; an integer division by zero panics.
CustomRate ==
    /\ rsPc = "crate"
    /\ IF rsNum = 0
       THEN /\ panicked' = TRUE
            /\ rsPc' = "panic"
            /\ UNCHANGED rsRate
       ELSE /\ rsRate' = cfgMaxDNSQueries \div rsNum
            /\ rsPc' = "cloop"
            /\ UNCHANGED panicked
    /\ UNCHANGED <<cfgMaxDNSQueries, rsMax, rsNum, rsI, rsTrusted, rsBaseline,
                   rsPublic, rsPool>>
    /\ BuilderFrame

\* One address of for _, addr := range cfg.Resolvers: NewBaseResolver gave
\* a resolver (built) or nil.
CustomBuild(built) ==
    /\ rsPc = "cloop"
    /\ rsI < cfgResolvers
    /\ rsI' = rsI + 1
    /\ rsTrusted' = IF built THEN rsTrusted + 1 ELSE rsTrusted
    /\ UNCHANGED <<cfgMaxDNSQueries, rsPc, rsMax, rsNum, rsRate, rsBaseline,
                   rsPublic, rsPool, panicked>>
    /\ BuilderFrame

\* return resolvers.NewResolverPool(trusted, 2*time.Second, nil, 1, cfg.Log)
CustomPool ==
    /\ rsPc = "cloop"
    /\ rsI = cfgResolvers
    /\ rsPool' = NewResolverPool(rsTrusted, "none")
    /\ rsPc' = "composed"
    /\ UNCHANGED <<cfgMaxDNSQueries, rsMax, rsNum, rsRate, rsI, rsTrusted,
                   rsBaseline, rsPublic, panicked>>
    /\ BuilderFrame

\* publicResolverSetup: the budget is written to the configuration.
PublicBudget ==
    /\ rsPc = "pbudget"
    /\ cfgMaxDNSQueries' = Budget(cfgMaxDNSQueries, rsNum, perPublic)
    /\ rsPc' = "ploop"
    /\ UNCHANGED <<rsMax, rsNum, rsRate, rsI, rsTrusted, rsBaseline, rsPublic,
                   rsPool, panicked>>
    /\ BuilderFrame

\* One address of for _, addr := range config.DefaultBaselineResolvers;
\* NewBaseResolver gives a resolver for each of these addresses.
PublicBuild ==
    /\ rsPc = "ploop"
    /\ rsI < NBaseline
    /\ rsI' = rsI + 1
    /\ rsTrusted' = rsTrusted + 1
    /\ UNCHANGED <<cfgMaxDNSQueries, rsPc, rsMax, rsNum, rsRate, rsBaseline,
                   rsPublic, rsPool, panicked>>
    /\ BuilderFrame

\* baseline := resolvers.NewResolverPool(trusted, time.Second, nil, 1, cfg.Log)
PublicBaseline ==
    /\ rsPc = "ploop"
    /\ rsI = NBaseline
    /\ rsBaseline' = NewResolverPool(rsTrusted, "none")
    /\ rsPc' = "probe"
    /\ UNCHANGED <<cfgMaxDNSQueries, rsMax, rsNum, rsRate, rsI, rsTrusted,
                   rsPublic, rsPool, panicked>>
    /\ BuilderFrame

\* r := setupResolvers(config.PublicResolvers, max, ...): nil, or k resolvers,
\* at most max of them and at most one for each address.
PublicProbe(k) ==
    /\ rsPc = "probe"
    /\ k \in 0..Num(NPublic, rsMax)
    /\ rsPublic' = k
    /\ rsPc' = "pcompose"
    /\ UNCHANGED <<cfgMaxDNSQueries, rsMax, rsNum, rsRate, rsI, rsTrusted,
                   rsBaseline, rsPool, panicked>>
    /\ BuilderFrame

\* return resolvers.NewResolverPool(r, 2*time.Second, baseline, 2, cfg.Log)
PublicPool ==
    /\ rsPc = "pcompose"
    /\ rsPool' = NewResolverPool(rsPublic, Fallback(rsBaseline))
    /\ rsPc' = "composed"
    /\ UNCHANGED <<cfgMaxDNSQueries, rsMax, rsNum, rsRate, rsI, rsTrusted,
                   rsBaseline, rsPublic, panicked>>
    /\ BuilderFrame

\* if pool == nil { return nil, errors.New(...) }, for the pool a builder
\* returned.
PoolBuilt ==
    /\ rsPc = "composed"
    /\ CtorPool(rsPool = "pool")

(***************************************************************************)
(* loadCacheData.                                                          *)
(***************************************************************************)
\* What amassnet.Range2CIDR returns for a record's range: nil (ok false) or
\* a network with a mask of ones leading bits.
NilCIDR == [ok |-> FALSE, ones |-> 0]
CIDRs == {NilCIDR} \cup {[ok |-> TRUE, ones |-> m] : m \in 0..MaxOnes}

\* The records of the IP to ASN data: record i has its own first address,
\* ASN, country code and description.
RangeRecords ==
    {[first |-> i, asn |-> 10 + i, cc |-> 20 + i, desc |-> 30 + i, cidr |-> c] :
        i \in 1..NRecIds, c \in CIDRs}

\* r.FirstIP.String()
IPString(ip) == <<"ip", ip>>

\* cidr.String(): the network's address and the mask length.
CIDRString(first, cidr) == <<"net", first, cidr.ones>>

\* Only the records without a CIDR are passed over.
SkipNil(cidr) == ~cidr.ok

\* if cidr == nil { continue }; if ones, _ := cidr.Mask.Size(); ones == 0 { continue }
Skip(cidr) == ~cidr.ok \/ cidr.ones = 0

\* &requests.ASNRequest{Address: ..., ASN: ..., CC: ..., Prefix: ..., Description: ...}
ASNRequest(r) ==
    [Address |-> IPString(r.first), ASN |-> r.asn, CC |-> r.cc,
     Prefix |-> CIDRString(r.first, r.cidr), Description |-> r.desc]

LoaderFrame ==
    /\ UNCHANGED sysVars
    /\ UNCHANGED <<probeVars, cfgVars, builderVars>>

\* ranges, err := config.GetIP2ASNData(); if err != nil { return err }
LoadFetch(ok) ==
    /\ lcPc = "fetch"
    /\ lcPc' = IF ok THEN "loop" ELSE "err"
    /\ UNCHANGED <<ranges, lcI, cacheUpdates>>
    /\ LoaderFrame

\* One record of for _, r := range ranges.
LoadRecord ==
    /\ lcPc = "loop"
    /\ lcI < Len(ranges)
    /\ lcI' = lcI + 1
    /\ cacheUpdates' = IF Skip(ranges[lcI + 1].cidr)
                       THEN cacheUpdates
                       ELSE Append(cacheUpdates, ASNRequest(ranges[lcI + 1]))
    /\ UNCHANGED <<lcPc, ranges>>
    /\ LoaderFrame

\* return nil
LoadReturn ==
    /\ lcPc = "loop"
    /\ lcI = Len(ranges)
    /\ lcPc' = "done"
    /\ UNCHANGED <<ranges, lcI, cacheUpdates>>
    /\ LoaderFrame

(***************************************************************************)
(* Specifications.                                                         *)
(***************************************************************************)
GraphIds == 1..(NGraphs + MaxDBs)

\* The prober's variables before setupResolvers(addrs, max, ...) is called
\* with n addresses.
InitProbe(n, max) ==
    /\ prPc = "call"
    /\ prN = n
    /\ prMax = max
    /\ nChecking = 0 /\ nSendH = 0 /\ nSendNil = 0 /\ nDone = 0
    /\ finished = << >>
    /\ prI = 0 /\ prCount = 0 /\ prAccepted = 0 /\ prStopped = 0
    /\ prResult = "pending"

InitProbeIdle == InitProbe(0, 0)

\* The system's variables before anything has run.
InitSystem ==
    /\ doneAlreadyClosed = FALSE
    /\ done = "open"
    /\ allSources = << >>
    /\ actorAdd = 0
    /\ dataSources = NilSlice
    /\ heap = [c \in Caps |-> << >>]
    /\ reply = [t \in Threads |-> << >>]
    /\ op = [t \in Threads |-> "none"]
    /\ pc = [t \in Threads |-> "idle"]
    /\ snap = [t \in Threads |-> NilSlice]
    /\ idx = [t \in Threads |-> 0]
    /\ w = [s \in Sources |-> "new"]
    /\ viaSet = [s \in Sources |-> FALSE]
    /\ svc = [s \in Sources |-> "none"]
    /\ sdsPc = "idle" /\ sdsN = 0 /\ sdsI = 0 /\ ch = << >> /\ timerFired = FALSE
    /\ sdsSeen = {}
    /\ ctorErr = "none"
    /\ panicked = FALSE
    /\ stops = [s \in Sources |-> 0]
    /\ closes = 0
    /\ graphCloses = [g \in GraphIds |-> 0]
    /\ poolStops = 0
    /\ accepted = {}
    /\ atReply = [t \in Threads |-> << >>]
    /\ mustSee = [t \in Threads |-> {}]
    /\ view = [t \in Threads |-> << >>]
    /\ lateCall = [t \in Threads |-> FALSE]
    /\ afterSet = [t \in Threads |-> FALSE]
    /\ tornDown = FALSE

\* The configuration and the builders' variables before a pool is built for
\* n trusted addresses, the cap max and the query budget q.
InitBuilder(n, max, q, pb, pp) ==
    /\ cfgResolvers = n
    /\ cfgMaxDNSQueries = q
    /\ budget0 = q
    /\ perBaseline = pb
    /\ perPublic = pp
    /\ rsPc = "choose"
    /\ rsMax = max
    /\ rsNum = 0 /\ rsRate = 0 /\ rsI = 0 /\ rsTrusted = 0
    /\ rsBaseline = "none"
    /\ rsPublic = 0
    /\ rsPool = "pending"

InitBuilderIdle == InitBuilder(0, 0, 0, 1, 1)

\* The loader's variables before loadCacheData is called, rs the records
\* config.GetIP2ASNData has to give.
InitLoader(rs) ==
    /\ lcPc = "fetch"
    /\ ranges = rs
    /\ lcI = 0
    /\ cacheUpdates = << >>

InitLoaderIdle == InitLoader(<< >>)

InitCommon == InitSystem /\ InitProbeIdle /\ InitBuilderIdle /\ InitLoaderIdle

\* A constructed system: NewLocalSystem has returned sys, the actor runs.
Init ==
    /\ InitCommon
    /\ ctorPc = "returned"
    /\ actorPc = "select"
    /\ pool = "built"
    /\ dbs = NGraphs
    /\ dbIdx = NGraphs
    /\ graphs = [i \in 1..NGraphs |-> i]

\* The start of NewLocalSystem, for a configuration of dbs database entries.
InitCtor ==
    /\ InitCommon
    /\ ctorPc = "check"
    /\ actorPc = "none"
    /\ pool = "none"
    /\ dbs \in 0..MaxDBs
    /\ dbIdx = 0
    /\ graphs = << >>

(***************************************************************************)
(* The steps of the goroutines, by the threads and sources that take part. *)
(***************************************************************************)
\* manageDataSources serving adds and queries
Registry ==
    \/ \E s \in Sources : ActorRecvAdd(s)
    \/ ActorAppendSort
    \/ ActorRecvAll

\* AddAndStart called directly on the sources of S
Adds(S) ==
    \/ \E s \in S : AddAndStartCall(s)
    \/ \E s \in S, res \in {"ok", "err"} : StartReturn(s, res)

\* SetDataSources called once with the first k sources, k <= n
SetSources(n) ==
    \/ \E k \in 0..n : SetDataSourcesCall(1..k)
    \/ \E s \in 1..n, res \in {"ok", "err"} : StartReturn(s, res)
    \/ \E s \in 1..n : WorkerReport(s)
    \/ TimerFire
    \/ SdsRecv
    \/ SdsTimeout
    \/ SdsExit

\* DataSources called by the clients of T
Queries(T) ==
    \/ \E t \in T : DataSourcesCall(t)
    \/ \E t \in T : DsSend(t)
    \/ \E t \in T : DsRecv(t)
    \/ \E t \in T : DsReturn(t)

\* Shutdown running in the threads of T
ShutdownSteps(T) ==
    \/ \E t \in T : ShCheck(t)
    \/ \E t \in T : ShSet(t)
    \/ \E t \in T : DsSend(t)
    \/ \E t \in T : DsRecv(t)
    \/ \E t \in T : ShStop(t)
    \/ \E t \in T : ShClose(t)
    \/ \E t \in T : ShGraphs(t)
    \/ \E t \in T : ShPool(t)
    \/ \E t \in T : ShReturn(t)

\* NewLocalSystem
CtorStep ==
    \/ \E ok \in BOOLEAN : CtorCheckSettings(ok)
    \/ \E ok \in BOOLEAN : CtorPool(ok)
    \/ \E ok \in BOOLEAN : CtorLoadCache(ok)
    \/ CtorOutDir
    \/ \E res \in {"ok", "nocayley", "nograph"}, p \in BOOLEAN : CtorGraph(res, p)
    \/ CtorSpawn

(***************************************************************************)
(* Spec: a constructed system; sources are added and started while clients *)
(* query the registry.                                                     *)
(***************************************************************************)
Next ==
    \/ Registry
    \/ Adds(Sources)
    \/ Queries(Observers)

Spec == Init /\ [][Next]_vars

(***************************************************************************)
(* SpecSet: a constructed system; SetDataSources is called, while clients  *)
(* query the registry.                                                     *)
(***************************************************************************)
NextSet ==
    \/ Registry
    \/ SetSources(NSrcSet)
    \/ Queries(Observers)

SpecSet == Init /\ [][NextSet]_vars

(***************************************************************************)
(* SpecSeq: a constructed system used by one client at a time: an          *)
(* operation is called only when no other is in progress.                  *)
(***************************************************************************)
NoCallInProgress ==
    /\ \A t \in Callers : op[t] = "none"
    /\ \A s \in Sources : w[s] \in {"new", "added", "failed"}

NextSeq ==
    \/ Registry
    \/ ActorDone
    \/ NoCallInProgress /\ \E s \in Sources : AddAndStartCall(s)
    \/ \E s \in Sources, res \in {"ok", "err"} : StartReturn(s, res)
    \/ NoCallInProgress /\ \E t \in Callers : DataSourcesCall(t)
    \/ NoCallInProgress /\ \E t \in Callers : ShutdownCall(t)
    \/ \E t \in Callers : DsReturn(t)
    \/ ShutdownSteps(Callers)

SpecSeq == Init /\ [][NextSeq]_vars

(***************************************************************************)
(* SpecShut: a constructed system; clients call Shutdown concurrently      *)
(* while sources are added and started.                                    *)
(***************************************************************************)
NextShut ==
    \/ Registry
    \/ ActorDone
    \/ Adds(1..NSrcShut)
    \/ \E t \in Callers : ShutdownCall(t)
    \/ ShutdownSteps(Callers)

SpecShut == Init /\ [][NextShut]_vars

(***************************************************************************)
(* SpecCtor: NewLocalSystem from its first line, then the system it        *)
(* returned used by one client.                                            *)
(***************************************************************************)
NextCtor ==
    \/ CtorStep
    \/ Registry
    \/ ActorDone
    \/ Adds(1..NSrcShut)
    \/ ShutdownCall(1)
    \/ ShutdownSteps({CtorThread, 1})

SpecCtor == InitCtor /\ [][NextCtor]_vars

(***************************************************************************)
(* SpecProbe: setupResolvers called with any number of addresses and any   *)
(* cap, every probe ending either way.                                     *)
(***************************************************************************)
InitProbeAny ==
    /\ InitSystem
    /\ ctorPc = "pool"
    /\ actorPc = "none"
    /\ pool = "none"
    /\ dbs = 0
    /\ dbIdx = 0
    /\ graphs = << >>
    /\ \E n \in 0..MaxAddrs, max \in 0..MaxCap : InitProbe(n, max)
    /\ InitBuilderIdle
    /\ InitLoaderIdle

NextProbe ==
    \/ PrCall
    \/ \E got \in BOOLEAN : ProbeCheck(got)
    \/ ProbeSendResolver
    \/ ProbeSendNil
    \/ PrRecv
    \/ PrReturn

SpecProbe == InitProbeAny /\ [][NextProbe]_vars

\* NewLocalSystem at the construction of the pool, for every configuration
\* within the bounds: trusted addresses or none, a cap, a query budget, and
\* the two default rates of package config.
InitPool ==
    /\ InitSystem
    /\ InitProbeIdle
    /\ InitLoaderIdle
    /\ ctorPc = "pool"
    /\ actorPc = "none"
    /\ pool = "none"
    /\ dbs = 0
    /\ dbIdx = 0
    /\ graphs = << >>
    /\ \E n \in 0..MaxTrusted, max \in 0..MaxFd, q \in 0..MaxBudget,
          pb \in 1..MaxPerSec, pp \in 1..MaxPerSec : InitBuilder(n, max, q, pb, pp)

NextPool ==
    \/ ChooseSetup
    \/ CustomBudget
    \/ CustomRate
    \/ \E built \in BOOLEAN : CustomBuild(built)
    \/ CustomPool
    \/ PublicBudget
    \/ PublicBuild
    \/ PublicBaseline
    \/ \E k \in 0..NPublic : PublicProbe(k)
    \/ PublicPool
    \/ PoolBuilt

SpecPool == InitPool /\ [][NextPool]_vars

\* loadCacheData called by NewLocalSystem, for every list of at most
\* MaxRanges records.
RECURSIVE SeqsUpTo(_, _)
SeqsUpTo(S, n) ==
    IF n = 0 THEN {<< >>}
    ELSE LET shorter == SeqsUpTo(S, n - 1)
         IN  shorter \cup {Append(q, x) : q \in shorter, x \in S}

InitCache ==
    /\ InitSystem
    /\ InitProbeIdle
    /\ InitBuilderIdle
    /\ ctorPc = "cache"
    /\ actorPc = "none"
    /\ pool = "built"
    /\ dbs = 0
    /\ dbIdx = 0
    /\ graphs = << >>
    /\ \E rs \in SeqsUpTo(RangeRecords, MaxRanges) : InitLoader(rs)

NextCache ==
    \/ \E ok \in BOOLEAN : LoadFetch(ok)
    \/ LoadRecord
    \/ LoadReturn

SpecCache == InitCache /\ [][NextCache]_vars

(***************************************************************************)
(* Properties.                                                             *)
(***************************************************************************)
Sorted(q) == \A i \in 1..(Len(q) - 1) : SrcName(q[i]) <= SrcName(q[i + 1])

\* q and r hold the same sources, each once.
SameSources(q, r) ==
    /\ Len(q) = Len(r)
    /\ Range(q) = Range(r)
    /\ Cardinality(Range(q)) = Len(q)

\* The sources in the actor's list.
Registered == Range(View(dataSources))

\* A DataSources call of t has returned; view[t] is what it returned.
Returned(t) == op[t] = "DataSources" /\ pc[t] = "ret"

SetReturned == sdsPc \in {"timedout", "complete"}

\* C1: when Shutdown calls do not overlap, a call made after a call that
\* tore the system down goes no further than the flag check (it returns nil
\* there), and no source is stopped twice, the done channel is closed at
\* most once, no graph is closed twice and the pool is stopped at most once.
C1_SequentialShutdownOnce ==
    /\ ~panicked
    /\ \A s \in Sources : stops[s] <= 1
    /\ closes <= 1
    /\ \A g \in GraphIds : graphCloses[g] <= 1
    /\ poolStops <= 1
    /\ \A t \in Callers :
         op[t] = "Shutdown" /\ lateCall[t] => pc[t] \in {"check", "retnil"}

\* A second Shutdown call has returned at the flag check, after a first call
\* that stopped a source, closed done, closed the graphs and stopped the pool.
C1_SecondCallReturned ==
    \E t \in Callers :
        /\ op[t] = "Shutdown" /\ lateCall[t] /\ pc[t] = "retnil"
        /\ closes = 1 /\ poolStops = 1
        /\ \E s \in Sources : stops[s] = 1
        /\ \A g \in Range(graphs) : graphCloses[g] = 1

\* C2: with Shutdown called concurrently the teardown happens once: the done
\* channel is closed once (a second close panics), no source is stopped
\* twice, no graph is closed twice and the pool is stopped once.
C2_ConcurrentShutdownOnce ==
    /\ ~panicked
    /\ closes <= 1
    /\ \A s \in Sources : stops[s] <= 1
    /\ \A g \in GraphIds : graphCloses[g] <= 1
    /\ poolStops <= 1

\* C3: when the ASN data cannot be fetched, NewLocalSystem goes on until it
\* has returned the error: its cleanup Shutdown never stops for good.
C3_FetchFailureReturns ==
    ctorErr = "fetch" /\ ctorPc /= "failed" => ENABLED NextCtor

\* C4: a snapshot DataSources returns is sorted by name and holds exactly the
\* sources the actor had accepted when it answered the query.
C4_SnapshotSortedAndExact ==
    \A t \in Observers :
        Returned(t) => Sorted(view[t]) /\ SameSources(view[t], atReply[t])

\* C5: AddSource returns only once the actor has the source, and a snapshot
\* returned by a DataSources call that began after AddSource(s) returned
\* holds s.
C5_SnapshotHoldsReturnedAdds ==
    /\ \A s \in Sources : w[s] = "added" => s \in accepted
    /\ \A t \in Observers : Returned(t) => mustSee[t] \subseteq Range(view[t])

\* C6: when a Shutdown call that tore the system down returns, every source
\* in the actor's list has been stopped.
C6_ShutdownStopsEveryRegistered ==
    \A t \in Callers :
        op[t] = "Shutdown" /\ pc[t] = "ret" =>
            \A s \in Registered : stops[s] >= 1

\* C7: a source is handed to the actor, registered or shown in a snapshot
\* only after its Start returned success, and SetDataSources returns without
\* any error of the starts.
C7_OnlyStartedSourcesRegistered ==
    /\ \A s \in Sources :
         (\/ w[s] = "sending"
          \/ s \in accepted
          \/ s \in Registered
          \/ \E t \in Observers : s \in Range(view[t]) \cup Range(atReply[t]))
         => svc[s] = "ok"
    /\ SetReturned => sdsSeen = {}

\* SetDataSources has returned, one of its sources failed to start and is
\* absent from a returned snapshot that holds another one.
C7_FailedSourceLeftOut ==
    /\ SetReturned
    /\ \E s, r \in Sources, t \in Observers :
        /\ viaSet[s] /\ svc[s] = "err" /\ w[s] = "reported"
        /\ Returned(t)
        /\ r \in Range(view[t]) /\ s \notin Range(view[t])

\* A source of SetDataSources whose Start has not returned.
StartPending(s) == viaSet[s] /\ svc[s] = "running"

\* C8: once the timer has fired with a Start still running, SetDataSources
\* can leave its loop at once; it has then returned by the timer; and no
\* snapshot returned while the Start is still running holds that source.
C8_DeadlineReturnOmitsPending ==
    /\ (sdsPc = "loop" /\ timerFired /\ \E s \in Sources : StartPending(s))
         => ENABLED SdsTimeout
    /\ (SetReturned /\ \E s \in Sources : StartPending(s)) => sdsPc = "timedout"
    /\ \A s \in Sources, t \in Observers :
         StartPending(s) /\ Returned(t) => s \notin Range(view[t])

\* SetDataSources returned at the deadline with a Start still running, and a
\* DataSources call made after that has returned a snapshot with another
\* source in it.
C8_SnapshotAfterDeadline ==
    /\ sdsPc = "timedout"
    /\ \E s \in Sources, t \in Observers :
        /\ StartPending(s)
        /\ Returned(t) /\ afterSet[t]
        /\ view[t] /= << >>

\* C9: when a graph or its connection cannot be built, NewLocalSystem goes
\* on until it has returned the error, and it has then closed every graph
\* built before and stopped the pool.
C9_GraphFailureCleansUp ==
    ctorErr = "graph" =>
        IF ctorPc = "failed"
        THEN (\A g \in Range(graphs) : graphCloses[g] = 1) /\ poolStops = 1
        ELSE ENABLED NextCtor

\* C10: setupResolvers accepts at most max resolvers, and returns nil exactly
\* when it accepted none.
C10_ProberWithinCap ==
    /\ prAccepted <= prMax
    /\ prPc = "returned" => (prResult = "nil" <=> prAccepted = 0)

\* setupResolvers returned a full set and stopped a resolver beyond the cap.
C10_CapReached ==
    /\ prPc = "returned"
    /\ prResult = "set"
    /\ prAccepted = prMax
    /\ prStopped > 0

Min(a, b) == IF a < b THEN a ELSE b
Max(a, b) == IF a > b THEN a ELSE b

\* customResolverSetup is the builder that runs.
TrustedMode == cfgResolvers > 0

\* customResolverSetup has computed its rate.
RateComputed == TrustedMode /\ rsPc \in {"cloop", "composed"}

\* C11: in trusted-list mode the pool is built from at most min(n, max)
\* resolvers, n the number of configured addresses, also when n > max.
C11_TrustedWithinCap ==
    TrustedMode => rsTrusted <= Min(cfgResolvers, rsMax)

\* C12: in trusted-list mode with n >= 1 addresses and max >= 1, the rate of
\* the resolvers is floor(B / num), num = min(n, max), B = num times the
\* default rate per baseline resolver when the configured budget is 0, and
\* the larger of the configured budget and num otherwise; with the budget 0
\* the rate is the default rate per baseline resolver.
C12_TrustedRate ==
    (RateComputed /\ rsMax >= 1) =>
        LET num == Min(cfgResolvers, rsMax)
            B == IF budget0 = 0 THEN num * perBaseline ELSE Max(budget0, num)
        IN  /\ rsRate = B \div num
            /\ budget0 = 0 => rsRate = perBaseline

\* A pool of resolvers built for a budget that lay under num and was raised.
C12_RaisedBudgetPool ==
    /\ RateComputed
    /\ rsPc = "composed"
    /\ rsTrusted >= 1
    /\ budget0 > 0
    /\ budget0 < rsNum
    /\ rsRate = 1

\* The prober admitted nothing and publicResolverSetup has returned.
NothingProbed == cfgResolvers = 0 /\ rsPc = "composed" /\ rsPublic = 0

RECURSIVE Kept(_)
Kept(rs) ==
    IF rs = << >> THEN << >>
    ELSE LET r == Last(rs)
         IN  IF r.cidr.ok /\ r.cidr.ones > 0
             THEN Append(Kept(Front(rs)),
                         [Address |-> <<"ip", r.first>>, ASN |-> r.asn, CC |-> r.cc,
                          Prefix |-> <<"net", r.first, r.cidr.ones>>,
                          Description |-> r.desc])
             ELSE Kept(Front(rs))

\* C14: after the cache load, the cache has received exactly one update for
\* each record whose range gives a CIDR of mask length above 0, with that
\* record's first IP, ASN, country code, description and CIDR; the other
\* records give no update, and no update has a prefix of length 0.
C14_OneUpdatePerUsableRecord ==
    /\ lcPc = "done" => cacheUpdates = Kept(ranges)
    /\ lcPc = "loop" => cacheUpdates = Kept(SubSeq(ranges, 1, lcI))
    /\ \A i \in 1..Len(cacheUpdates) : cacheUpdates[i].Prefix[3] /= 0

\* A load of three records: one kept, one without a CIDR, one of mask
\* length 0.
C14_MixedLoad ==
    /\ lcPc = "done"
    /\ Len(ranges) = 3
    /\ Len(cacheUpdates) = 1
    /\ \E i \in 1..3 : ~ranges[i].cidr.ok
    /\ \E i \in 1..3 : ranges[i].cidr.ok /\ ranges[i].cidr.ones = 0

\* The outcomes the probes have sent: those received and those in the channel.
Sent == prI + Len(finished)

\* C15: each probe sends exactly one outcome, setupResolvers receives one
\* outcome for each probe, and once it has returned no probe is left
\* blocked on the channel: a probe still to send finds room.
C15_OneOutcomePerProbe ==
    /\ Sent <= prN
    /\ prPc = "returned" => prI = prN
    /\ (prPc = "returned" /\ nSendH + nSendNil > 0) => Len(finished) < FinishedCap

\* C16: at the return of setupResolvers every resolver a probe built is in
\* the accepted set or has been stopped: none is in the channel unread, and
\* none is held by a probe that waits to send it.
C16_NoResolverLeftAtReturn ==
    [][(prPc = "loop" /\ prPc' = "returned") =>
          (nSendH' = 0 /\ "H" \notin Range(finished'))]_vars

\* C17: in trusted-list mode, for every n >= 1, budget >= 0 and max >= 0,
\* max = 0 included, the rate is computed without a division by zero and is
\* at least 1.
C17_RateDefinedAndPositive ==
    TrustedMode =>
        /\ rsPc /= "panic"
        /\ ~panicked
        /\ RateComputed => rsRate >= 1

\* C18: the construction of the pool leaves the configuration as it was:
\* cfg.MaxDNSQueries keeps the value it had before.
C18_ConfigUnchanged ==
    cfgMaxDNSQueries = budget0

\* C19: a snapshot DataSources returned stays as the actor sent it, in its
\* length and at each position, whatever sources are added afterwards.
C19_SnapshotIsolated ==
    \A t \in Observers : Returned(t) => View(snap[t]) = atReply[t]

\* t's DataSources call waits for an answer that has not been sent.
AwaitsReply(t) ==
    op[t] = "DataSources" /\ pc[t] \in {"send", "recv"} /\ reply[t] = << >>

\* C20: every AddSource and DataSources call returns in the end, also when
\* it is made after Shutdown has returned and the actor has exited.  The
\* actor, once it has exited, receives nothing more, so a call returns only
\* if the actor has not exited while the call waits for it.
C20_CallsAreServed ==
    /\ \A s \in Sources : w[s] = "sending" => actorPc /= "exit"
    /\ \A t \in Callers : AwaitsReply(t) => actorPc /= "exit"

=============================================================================
